---- MODULE Spec2Model ----
(***************************************************************************)
(* A model of the task-manager Flask application (src/app.py): the users   *)
(* and tasks tables, the per-client Flask session, and the JSON API        *)
(* handlers /api/register, /api/login, /api/logout, /api/me and            *)
(* /api/tasks[...].                                                        *)
(*                                                                         *)
(* Strings are tuples of one-character strings, so that str.strip() and    *)
(* len() are computed rather than assumed.  A response is the triple the   *)
(* handler returns (status, success, message) plus its payload; the        *)
(* variable last holds the response of the most recent request together    *)
(* with the route (op, task id) and the client it was served to, and body  *)
(* holds the JSON body of that request.  dbFaults tells whether the         *)
(* database of this run can fail a commit for reasons of its own.          *)
(***************************************************************************)
EXTENDS Integers, Sequences, FiniteSets, TLC

VARIABLES users, tasks, session, nextUserId, nextTaskId, now, last, body, reg,
          dbFaults

vars == <<users, tasks, session, nextUserId, nextTaskId, now, last, body, reg,
          dbFaults>>

(***************************************************************************)
(* Bounds of the model.                                                    *)
(***************************************************************************)
\* number of task identifiers the tasks table hands out
MaxTasks == 2
\* readings of the wall clock, in ticks of the resolution of created_at
Timestamps == {0, 1}

\* browser sessions (one signed cookie each)
Clients == {"c1"}
\* number of workers that serve register requests at the same time
NumWorkers == 2
Workers == 1 .. NumWorkers

(***************************************************************************)
(* Request inputs.                                                         *)
(***************************************************************************)
Secret == <<"s", "e", "c", "r", "e", "t">>
Short == <<"1", "2", "3", "4", "5">>
Wrong == <<"1", "2", "3", "4", "5", "6">>
\* task ids a request may name: stored, deleted or not yet handed out
TaskIds == 1 .. MaxTasks

\* three acceptable registrations (the third shares its username with the
\* first and its email with the second) and one request per validation rule
RegisterBodies ==
    { [username |-> <<"a">>, email |-> <<"x">>, password |-> Secret],
      [username |-> <<" ", "b">>, email |-> <<"y", " ">>, password |-> Secret],
      [username |-> <<"a", " ">>, email |-> <<"y">>, password |-> Wrong],
      [username |-> <<" ">>, email |-> <<"x">>, password |-> Secret],
      [username |-> <<"a">>, email |-> <<>>, password |-> Secret],
      [username |-> <<"a">>, email |-> <<"x">>, password |-> <<>>],
      [username |-> <<"a">>, email |-> <<"x">>, password |-> Short] }
LoginBodies ==
    [username : { <<"a">>, <<"b", " ">> }, password : { Secret, Wrong }]
TaskBodies ==
    { [title |-> <<" ">>, content |-> <<"c", " ">>],
      [title |-> <<"t">>, content |-> <<>>],
      [title |-> <<" ", "u">>, content |-> <<"c", " ">>] }

(***************************************************************************)
(* str.strip(), truthiness of a str, len().                                *)
(***************************************************************************)
IsSpace(ch) == ch = " "

RECURSIVE lstrip(_)
lstrip(s) == IF s # <<>> /\ IsSpace(Head(s)) THEN lstrip(Tail(s)) ELSE s

RECURSIVE rstrip(_)
rstrip(s) ==
    IF s # <<>> /\ IsSpace(s[Len(s)]) THEN rstrip(SubSeq(s, 1, Len(s) - 1)) ELSE s

strip(s) == rstrip(lstrip(s))

\* Python's "not s" for a str
Falsy(s) == Len(s) = 0

(***************************************************************************)
(* werkzeug.security: a credential is the salt together with a digest of   *)
(* salt and password; verification recomputes the digest with the stored   *)
(* salt.                                                                   *)
(***************************************************************************)
Ord(ch) ==
    CASE ch = " " -> 32
      [] ch = "1" -> 49 [] ch = "2" -> 50 [] ch = "3" -> 51
      [] ch = "4" -> 52 [] ch = "5" -> 53 [] ch = "6" -> 54
      [] ch = "c" -> 99 [] ch = "e" -> 101 [] ch = "r" -> 114
      [] ch = "s" -> 115 [] ch = "t" -> 116
      [] OTHER -> 63

RECURSIVE Digest(_, _)
Digest(h, s) ==
    IF s = <<>> THEN h ELSE Digest((h * 31 + Ord(Head(s))) % 65521, Tail(s))

\* the salt drawn by generate_password_hash (no handler reads it)
Salts == {7}

generate_password_hash(password, salt) ==
    [salt |-> salt, digest |-> Digest(salt, password)]

check_password_hash(pwhash, password) ==
    Digest(pwhash.salt, password) = pwhash.digest

(***************************************************************************)
(* Tables and queries.                                                     *)
(***************************************************************************)
\* class User: one row of the users table (created_at, which no handler
\* reads, is left out)
User(id, username, email, password_hash) ==
    [id |-> id, username |-> username, email |-> email,
     password_hash |-> password_hash]

\* a tasks table whose done column defaults to True
Task_DoneByDefault(id, title, content, created_at, user_id) ==
    [id |-> id, title |-> title, content |-> content, done |-> TRUE,
     created_at |-> created_at, user_id |-> user_id]

\* class Task: one row of the tasks table; done defaults to False
Task(id, title, content, created_at, user_id) ==
    [id |-> id, title |-> title, content |-> content, done |-> FALSE,
     created_at |-> created_at, user_id |-> user_id]

\* the username query matching on the wrong column
UsersByUsername_ByEmail(username) == {u \in users : u.email = username}

\* User.query.filter_by(username=username): the matching rows
UsersByUsername(username) == {u \in users : u.username = username}

\* User.query.filter_by(email=email): the matching rows
UsersByEmail(email) == {u \in users : u.email = email}

\* Task.query.get(task_id): the matching rows (none or one)
TasksById(task_id) == {t \in tasks : t.id = task_id}

\* db.session.commit() either commits or raises; it raises for reasons of
\* its own (connection lost, disk full, ...) only where the environment
\* lets the database fail
CommitOutcomes == IF dbFaults THEN BOOLEAN ELSE {TRUE}

\* a users table declared without unique=True
UsersConstraintsAllow_NoUnique(table, u) == \A v \in table : v.id # u.id

\* the UNIQUE and PRIMARY KEY constraints of the users table, as the
\* database checks them when the INSERT of row u is committed
UsersConstraintsAllow(table, u) ==
    \A v \in table : /\ v.id # u.id
                     /\ v.username # u.username
                     /\ v.email # u.email

(***************************************************************************)
(* Sessions and responses.                                                 *)
(***************************************************************************)
\* the Flask session of a client is a dict; {} after session.clear()
EmptySession == <<>>

LoggedIn(c) == "user_id" \in DOMAIN session[c]

NoUser == <<>>
\* request.get_json() of a request that carries no body
NoBody == <<>>
NoTasks == <<>>

\* jsonify({...}), status -- recorded with the route it answers
Response(op, c, tid, status, message, user, tasklist) ==
    [op |-> op, client |-> c, tid |-> tid, status |-> status,
     success |-> (status < 400), message |-> message,
     user |-> user, tasks |-> tasklist]

\* the response of a route that has no <task_id> (tid is recorded as 0,
\* which the tasks table never hands out)
Reply(op, c, status, message, user, tasklist) ==
    Response(op, c, 0, status, message, user, tasklist)

NotLoggedIn(op, c, tid) ==
    Response(op, c, tid, 401, "Not logged in.", NoUser, NoTasks)

ServerError(op, c, tid) ==
    Response(op, c, tid, 500, "Server error.", NoUser, NoTasks)

TaskNotFound(op, c, tid) ==
    Response(op, c, tid, 404, "Task not found.", NoUser, NoTasks)

(***************************************************************************)
(* Initial state: db.create_all() on an empty database, no cookies.        *)
(***************************************************************************)
\* a worker with no request in hand
RegIdle ==
    [pc |-> "idle", client |-> "c1", username |-> <<>>, email |-> <<>>,
     password |-> <<>>, seen |-> {}]

Init ==
    /\ users = {}
    /\ tasks = {}
    /\ session = [c \in Clients |-> EmptySession]
    /\ nextUserId = 1
    /\ nextTaskId = 1
    /\ now = 0
    /\ last = Reply("none", "c1", 0, "", NoUser, NoTasks)
    /\ body = NoBody
    /\ dbFaults = FALSE
    /\ reg = [w \in Workers |-> RegIdle]

(***************************************************************************)
(* POST /api/register                                                      *)
(***************************************************************************)
\* "not username or not email or not password"
FieldMissing(username, email, password) ==
    Falsy(username) \/ Falsy(email) \/ Falsy(password)

\* the length test off by one
PasswordTooShort_OffByOne(password) == Len(password) < 5

\* "len(password) < 6"
PasswordTooShort(password) == Len(password) < 6

AllFieldsRequired(c) ==
    Reply("register", c, 400, "All fields are required.", NoUser, NoTasks)

PasswordTooShortReply(c) ==
    Reply("register", c, 400, "Password must be at least 6 characters.",
          NoUser, NoTasks)

UsernameTaken(c) ==
    Reply("register", c, 409, "Username already taken.", NoUser, NoTasks)

EmailRegistered(c) ==
    Reply("register", c, 409, "Email already registered.", NoUser, NoTasks)

\* the try block: add new_user and commit.  The commit fails when the
\* database refuses the row (a UNIQUE constraint) or for any other reason
\* (committed = FALSE); the except block rolls back and answers 500.
InsertUser(c, username, email, password) ==
    \E salt \in Salts, committed \in CommitOutcomes :
      LET new_user == User(nextUserId, username, email,
                           generate_password_hash(password, salt))
      IN  IF committed /\ UsersConstraintsAllow(users, new_user)
          THEN /\ users' = users \cup {new_user}
               /\ nextUserId' = nextUserId + 1
               /\ last' = Reply("register", c, 201, "Registration successful!",
                                NoUser, NoTasks)
          ELSE /\ UNCHANGED <<users, nextUserId>>
               /\ last' = ServerError("register", c, 0)

\* a register that logs the new user in
api_register_LogsIn(c, data) ==
    LET username == strip(data.username)
        email == strip(data.email)
        password == data.password
    IN  /\ UNCHANGED <<tasks, nextTaskId, now, reg, dbFaults>>
        /\ body' = data
        /\ IF FieldMissing(username, email, password)
           THEN /\ last' = AllFieldsRequired(c)
                /\ UNCHANGED <<users, nextUserId, session>>
           ELSE IF PasswordTooShort(password)
           THEN /\ last' = PasswordTooShortReply(c)
                /\ UNCHANGED <<users, nextUserId, session>>
           ELSE IF UsersByUsername(username) # {}
           THEN /\ last' = UsernameTaken(c)
                /\ UNCHANGED <<users, nextUserId, session>>
           ELSE IF UsersByEmail(email) # {}
           THEN /\ last' = EmailRegistered(c)
                /\ UNCHANGED <<users, nextUserId, session>>
           ELSE /\ InsertUser(c, username, email, password)
                /\ session' = [session EXCEPT ![c] =
                                 [user_id |-> nextUserId, username |-> username]]

\* a register that runs the email query before the username query
api_register_EmailFirst(c, data) ==
    LET username == strip(data.username)
        email == strip(data.email)
        password == data.password
    IN  /\ UNCHANGED <<tasks, session, nextTaskId, now, reg, dbFaults>>
        /\ body' = data
        /\ IF FieldMissing(username, email, password)
           THEN /\ last' = AllFieldsRequired(c)
                /\ UNCHANGED <<users, nextUserId>>
           ELSE IF PasswordTooShort(password)
           THEN /\ last' = PasswordTooShortReply(c)
                /\ UNCHANGED <<users, nextUserId>>
           ELSE IF UsersByEmail(email) # {}
           THEN /\ last' = EmailRegistered(c)
                /\ UNCHANGED <<users, nextUserId>>
           ELSE IF UsersByUsername(username) # {}
           THEN /\ last' = UsernameTaken(c)
                /\ UNCHANGED <<users, nextUserId>>
           ELSE InsertUser(c, username, email, password)

api_register(c, data) ==
    LET username == strip(data.username)
        email == strip(data.email)
        password == data.password
    IN  /\ UNCHANGED <<tasks, session, nextTaskId, now, reg, dbFaults>>
        /\ body' = data
        /\ IF FieldMissing(username, email, password)
           THEN /\ last' = AllFieldsRequired(c)
                /\ UNCHANGED <<users, nextUserId>>
           ELSE IF PasswordTooShort(password)
           THEN /\ last' = PasswordTooShortReply(c)
                /\ UNCHANGED <<users, nextUserId>>
           ELSE IF UsersByUsername(username) # {}
           THEN /\ last' = UsernameTaken(c)
                /\ UNCHANGED <<users, nextUserId>>
           ELSE IF UsersByEmail(email) # {}
           THEN /\ last' = EmailRegistered(c)
                /\ UNCHANGED <<users, nextUserId>>
           ELSE InsertUser(c, username, email, password)

(***************************************************************************)
(* POST /api/login                                                         *)
(***************************************************************************)
\* the 401 of api_login
InvalidLogin(c) ==
    Reply("login", c, 401, "Invalid username or password.", NoUser, NoTasks)

\* the 200 of api_login: the session takes the user's id and username
LogUserIn(c, user) ==
    /\ session' = [session EXCEPT ![c] =
                     [user_id |-> user.id, username |-> user.username]]
    /\ last' = Reply("login", c, 200, "Welcome back",
                     [id |-> user.id, username |-> user.username,
                      email |-> user.email], NoTasks)

\* a login that looks the user up and never verifies the password: "if user:"
api_login_NoPasswordCheck(c, data) ==
    LET username == strip(data.username)
        found == UsersByUsername(username)
    IN  /\ UNCHANGED <<users, tasks, nextUserId, nextTaskId, now, reg, dbFaults>>
        /\ body' = data
        /\ IF found = {}
           THEN UNCHANGED session /\ last' = InvalidLogin(c)
           ELSE \E user \in found : LogUserIn(c, user)

api_login(c, data) ==
    LET username == strip(data.username)
        password == data.password
        found == UsersByUsername(username)
    IN  /\ UNCHANGED <<users, tasks, nextUserId, nextTaskId, now, reg, dbFaults>>
        /\ body' = data
        /\ IF found = {}
           THEN UNCHANGED session /\ last' = InvalidLogin(c)
           ELSE \E user \in found :  \* .first()
                  IF check_password_hash(user.password_hash, password)
                  THEN LogUserIn(c, user)
                  ELSE UNCHANGED session /\ last' = InvalidLogin(c)

(***************************************************************************)
(* POST /api/logout                                                        *)
(***************************************************************************)
\* a logout that answers without clearing the session
api_logout_KeepsSession(c) ==
    /\ last' = Reply("logout", c, 200, "Logged out successfully.",
                     NoUser, NoTasks)
    /\ body' = NoBody
    /\ UNCHANGED <<users, tasks, session, nextUserId, nextTaskId, now, reg,
                   dbFaults>>

api_logout(c) ==
    /\ session' = [session EXCEPT ![c] = EmptySession]
    /\ last' = Reply("logout", c, 200, "Logged out successfully.",
                        NoUser, NoTasks)
    /\ body' = NoBody
    /\ UNCHANGED <<users, tasks, nextUserId, nextTaskId, now, reg, dbFaults>>

(***************************************************************************)
(* GET /api/me                                                             *)
(***************************************************************************)
api_me(c) ==
    /\ UNCHANGED <<users, tasks, session, nextUserId, nextTaskId, now, reg, dbFaults>>
    /\ body' = NoBody
    /\ IF LoggedIn(c)
       THEN last' = Reply("me", c, 200, "",
                             [id |-> session[c].user_id,
                              username |-> session[c].username], NoTasks)
       ELSE last' = Reply("me", c, 401, "Not logged in.", NoUser, NoTasks)

(***************************************************************************)
(* GET /api/tasks                                                          *)
(***************************************************************************)
\* the query without its filter
TasksOfUser_Unfiltered(user_id) == tasks

\* Task.query.filter_by(user_id=user_id): the matching rows
TasksOfUser(user_id) == {t \in tasks : t.user_id = user_id}

\* .order_by(Task.created_at.desc()).all(): the results the database may
\* return for the rows S -- every row once, created_at never increasing;
\* SQL leaves the order of rows with equal created_at to the engine
OrderByCreatedAtDesc(S) ==
    {q \in [1 .. Cardinality(S) -> S] :
        /\ \A i, j \in DOMAIN q : i # j => q[i] # q[j]
        /\ \A i, j \in DOMAIN q : i < j => q[i].created_at >= q[j].created_at}

\* one entry of tasks_list
TaskJson(task) ==
    [id |-> task.id, title |-> task.title, content |-> task.content,
     done |-> task.done, created_at |-> task.created_at,
     user_id |-> task.user_id]

api_get_tasks(c) ==
    /\ UNCHANGED <<users, tasks, session, nextUserId, nextTaskId, now, reg, dbFaults>>
    /\ body' = NoBody
    /\ IF ~LoggedIn(c)
       THEN last' = NotLoggedIn("list", c, 0)
       ELSE \E rows \in OrderByCreatedAtDesc(TasksOfUser(session[c].user_id)) :
              last' = Reply("list", c, 200, "", NoUser,
                               [i \in DOMAIN rows |-> TaskJson(rows[i])])

(***************************************************************************)
(* POST /api/tasks                                                         *)
(* created_at defaults to datetime.now() at the INSERT: the clock reads    *)
(* the tick of the previous reading or a later one.  nextTaskId is the     *)
(* AUTO_INCREMENT counter of tasks.id; an id is never handed out twice.    *)
(***************************************************************************)
\* a create without the test of the title
api_create_task_TitleUnchecked(c, data) ==
    /\ UNCHANGED <<users, session, nextUserId, reg, dbFaults>>
    /\ body' = data
    /\ IF ~LoggedIn(c)
       THEN /\ last' = NotLoggedIn("create", c, 0)
            /\ UNCHANGED <<tasks, nextTaskId, now>>
       ELSE \E t \in {ts \in Timestamps : ts >= now} :
              /\ nextTaskId <= MaxTasks
              /\ tasks' = tasks \cup
                   {Task(nextTaskId, strip(data.title), strip(data.content), t,
                         session[c].user_id)}
              /\ nextTaskId' = nextTaskId + 1
              /\ now' = t
              /\ last' = Reply("create", c, 201, "Task created!", NoUser, NoTasks)

\* api_create_task with the title validated before the session is checked
api_create_task_ValidateFirst(c, data) ==
    /\ UNCHANGED <<users, session, nextUserId, reg, dbFaults>>
    /\ body' = data
    /\ IF Falsy(strip(data.title))
       THEN /\ last' = Reply("create", c, 400, "Task title cannot be empty.",
                             NoUser, NoTasks)
            /\ UNCHANGED <<tasks, nextTaskId, now>>
       ELSE IF ~LoggedIn(c)
       THEN /\ last' = NotLoggedIn("create", c, 0)
            /\ UNCHANGED <<tasks, nextTaskId, now>>
       ELSE \E t \in {ts \in Timestamps : ts >= now} :
              /\ nextTaskId <= MaxTasks
              /\ tasks' = tasks \cup
                   {Task(nextTaskId, strip(data.title), strip(data.content), t,
                         session[c].user_id)}
              /\ nextTaskId' = nextTaskId + 1
              /\ now' = t
              /\ last' = Reply("create", c, 201, "Task created!", NoUser, NoTasks)

api_create_task(c, data) ==
    /\ UNCHANGED <<users, session, nextUserId, reg, dbFaults>>
    /\ body' = data
    /\ IF ~LoggedIn(c)
       THEN /\ last' = NotLoggedIn("create", c, 0)
            /\ UNCHANGED <<tasks, nextTaskId, now>>
       ELSE LET title == strip(data.title)
                content == strip(data.content)
            IN  IF Falsy(title)
                THEN /\ last' = Reply("create", c, 400,
                                         "Task title cannot be empty.",
                                         NoUser, NoTasks)
                     /\ UNCHANGED <<tasks, nextTaskId, now>>
                ELSE \E committed \in CommitOutcomes, t \in {ts \in Timestamps : ts >= now} :
                       IF committed
                       THEN /\ nextTaskId <= MaxTasks
                            /\ tasks' = tasks \cup
                                 {Task(nextTaskId, title, content, t,
                                       session[c].user_id)}
                            /\ nextTaskId' = nextTaskId + 1
                            /\ now' = t
                            /\ last' = Reply("create", c, 201,
                                                "Task created!", NoUser, NoTasks)
                       ELSE \* except: db.session.rollback()
                            /\ t = now
                            /\ UNCHANGED <<tasks, nextTaskId, now>>
                            /\ last' = ServerError("create", c, 0)

(***************************************************************************)
(* PUT /api/tasks/<task_id>                                                *)
(***************************************************************************)
\* the check without its ownership half: "not task"
NotFoundFor_ExistenceOnly(c, task_id) == TasksById(task_id) = {}

\* "not task or task.user_id != session['user_id']"
NotFoundFor(c, task_id) ==
    \A task \in TasksById(task_id) : task.user_id # session[c].user_id

\* an update that replaces the row by a new one under the same id: the new
\* row takes the defaults of created_at and done and the session's user
api_update_task_Reinsert(c, task_id, data) ==
    /\ UNCHANGED <<users, session, nextUserId, nextTaskId, now, reg, dbFaults>>
    /\ body' = data
    /\ IF ~LoggedIn(c)
       THEN /\ last' = NotLoggedIn("update", c, task_id)
            /\ UNCHANGED tasks
       ELSE IF NotFoundFor(c, task_id)
       THEN /\ last' = TaskNotFound("update", c, task_id)
            /\ UNCHANGED tasks
       ELSE IF Falsy(strip(data.title))
       THEN /\ last' = Response("update", c, task_id, 400,
                                "Task title cannot be empty.", NoUser, NoTasks)
            /\ UNCHANGED tasks
       ELSE \E task \in TasksById(task_id) :
              /\ tasks' = (tasks \ {task}) \cup
                            {Task(task_id, strip(data.title), strip(data.content),
                                  now, session[c].user_id)}
              /\ last' = Response("update", c, task_id, 200,
                                  "Task updated!", NoUser, NoTasks)

\* an update that writes the title and the content in two statements of
\* their own and does not roll back: a failure after the first leaves the
\* new title stored with the old content
api_update_task_NoRollback(c, task_id, data) ==
    /\ UNCHANGED <<users, session, nextUserId, nextTaskId, now, reg, dbFaults>>
    /\ body' = data
    /\ IF ~LoggedIn(c)
       THEN /\ last' = NotLoggedIn("update", c, task_id)
            /\ UNCHANGED tasks
       ELSE IF NotFoundFor(c, task_id)
       THEN /\ last' = TaskNotFound("update", c, task_id)
            /\ UNCHANGED tasks
       ELSE IF Falsy(strip(data.title))
       THEN /\ last' = Response("update", c, task_id, 400,
                                "Task title cannot be empty.", NoUser, NoTasks)
            /\ UNCHANGED tasks
       ELSE \E committed \in CommitOutcomes, task \in TasksById(task_id) :
              IF committed
              THEN /\ tasks' = (tasks \ {task}) \cup
                                 {[task EXCEPT !.title = strip(data.title),
                                               !.content = strip(data.content)]}
                   /\ last' = Response("update", c, task_id, 200,
                                       "Task updated!", NoUser, NoTasks)
              ELSE /\ tasks' = (tasks \ {task}) \cup
                                 {[task EXCEPT !.title = strip(data.title)]}
                   /\ last' = ServerError("update", c, task_id)

\* an update that tests and stores the title and content as supplied,
\* without .strip()
api_update_task_NoStrip(c, task_id, data) ==
    /\ UNCHANGED <<users, session, nextUserId, nextTaskId, now, reg, dbFaults>>
    /\ body' = data
    /\ IF ~LoggedIn(c)
       THEN /\ last' = NotLoggedIn("update", c, task_id)
            /\ UNCHANGED tasks
       ELSE IF NotFoundFor(c, task_id)
       THEN /\ last' = TaskNotFound("update", c, task_id)
            /\ UNCHANGED tasks
       ELSE IF Falsy(data.title)
       THEN /\ last' = Response("update", c, task_id, 400,
                                "Task title cannot be empty.", NoUser, NoTasks)
            /\ UNCHANGED tasks
       ELSE \E task \in TasksById(task_id) :
              /\ tasks' = (tasks \ {task}) \cup
                            {[task EXCEPT !.title = data.title,
                                          !.content = data.content]}
              /\ last' = Response("update", c, task_id, 200,
                                  "Task updated!", NoUser, NoTasks)

api_update_task(c, task_id, data) ==
    /\ UNCHANGED <<users, session, nextUserId, nextTaskId, now, reg, dbFaults>>
    /\ body' = data
    /\ IF ~LoggedIn(c)
       THEN /\ last' = NotLoggedIn("update", c, task_id)
            /\ UNCHANGED tasks
       ELSE IF NotFoundFor(c, task_id)
       THEN /\ last' = TaskNotFound("update", c, task_id)
            /\ UNCHANGED tasks
       ELSE LET new_title == strip(data.title)
                new_content == strip(data.content)
            IN  IF Falsy(new_title)
                THEN /\ last' = Response("update", c, task_id, 400,
                                         "Task title cannot be empty.",
                                         NoUser, NoTasks)
                     /\ UNCHANGED tasks
                ELSE \E committed \in CommitOutcomes, task \in TasksById(task_id) :
                       IF committed
                       THEN /\ tasks' = (tasks \ {task}) \cup
                                 {[task EXCEPT !.title = new_title,
                                               !.content = new_content]}
                            /\ last' = Response("update", c, task_id, 200,
                                                "Task updated!", NoUser, NoTasks)
                       ELSE \* except: db.session.rollback()
                            /\ UNCHANGED tasks
                            /\ last' = ServerError("update", c, task_id)

(***************************************************************************)
(* DELETE /api/tasks/<task_id>                                             *)
(***************************************************************************)
\* a delete that removes every task of the session's user
api_delete_task_AllOfUser(c, task_id) ==
    /\ UNCHANGED <<users, session, nextUserId, nextTaskId, now, reg, dbFaults>>
    /\ body' = NoBody
    /\ IF ~LoggedIn(c)
       THEN /\ last' = NotLoggedIn("delete", c, task_id)
            /\ UNCHANGED tasks
       ELSE IF NotFoundFor(c, task_id)
       THEN /\ last' = TaskNotFound("delete", c, task_id)
            /\ UNCHANGED tasks
       ELSE /\ tasks' = {t \in tasks : t.user_id # session[c].user_id}
            /\ last' = Response("delete", c, task_id, 200,
                                "Task deleted.", NoUser, NoTasks)

api_delete_task(c, task_id) ==
    /\ UNCHANGED <<users, session, nextUserId, nextTaskId, now, reg, dbFaults>>
    /\ body' = NoBody
    /\ IF ~LoggedIn(c)
       THEN /\ last' = NotLoggedIn("delete", c, task_id)
            /\ UNCHANGED tasks
       ELSE IF NotFoundFor(c, task_id)
       THEN /\ last' = TaskNotFound("delete", c, task_id)
            /\ UNCHANGED tasks
       ELSE \E committed \in CommitOutcomes, task \in TasksById(task_id) :
              IF committed
              THEN /\ tasks' = tasks \ {task}
                   /\ last' = Response("delete", c, task_id, 200,
                                       "Task deleted.", NoUser, NoTasks)
              ELSE \* except: db.session.rollback()
                   /\ UNCHANGED tasks
                   /\ last' = ServerError("delete", c, task_id)

(***************************************************************************)
(* PUT /api/tasks/<task_id>/toggle                                         *)
(***************************************************************************)
\* the message names the completion flag the task now has
ToggleMessage(done) ==
    IF done THEN "Task marked as done." ELSE "Task marked as not done."

\* a toggle that marks the task done instead of flipping the flag
api_toggle_task_MarksDone(c, task_id) ==
    /\ UNCHANGED <<users, session, nextUserId, nextTaskId, now, reg, dbFaults>>
    /\ body' = NoBody
    /\ IF ~LoggedIn(c)
       THEN /\ last' = NotLoggedIn("toggle", c, task_id)
            /\ UNCHANGED tasks
       ELSE IF NotFoundFor(c, task_id)
       THEN /\ last' = TaskNotFound("toggle", c, task_id)
            /\ UNCHANGED tasks
       ELSE \E committed \in CommitOutcomes, task \in TasksById(task_id) :
              IF committed
              THEN /\ tasks' = (tasks \ {task}) \cup
                                 {[task EXCEPT !.done = TRUE]}
                   /\ last' = Response("toggle", c, task_id, 200,
                                       ToggleMessage(TRUE), NoUser, NoTasks)
              ELSE \* except: db.session.rollback()
                   /\ UNCHANGED tasks
                   /\ last' = ServerError("toggle", c, task_id)

api_toggle_task(c, task_id) ==
    /\ UNCHANGED <<users, session, nextUserId, nextTaskId, now, reg, dbFaults>>
    /\ body' = NoBody
    /\ IF ~LoggedIn(c)
       THEN /\ last' = NotLoggedIn("toggle", c, task_id)
            /\ UNCHANGED tasks
       ELSE IF NotFoundFor(c, task_id)
       THEN /\ last' = TaskNotFound("toggle", c, task_id)
            /\ UNCHANGED tasks
       ELSE \E committed \in CommitOutcomes, task \in TasksById(task_id) :
              IF committed
              THEN /\ tasks' = (tasks \ {task}) \cup
                                 {[task EXCEPT !.done = ~task.done]}
                   /\ last' = Response("toggle", c, task_id, 200,
                                       ToggleMessage(~task.done), NoUser, NoTasks)
              ELSE \* except: db.session.rollback()
                   /\ UNCHANGED tasks
                   /\ last' = ServerError("toggle", c, task_id)

(***************************************************************************)
(* The application: requests are served one at a time.                     *)
(***************************************************************************)
Next ==
    \/ \E c \in Clients, data \in RegisterBodies : api_register(c, data)
    \/ \E c \in Clients, data \in LoginBodies : api_login(c, data)
    \/ \E c \in Clients : api_logout(c)
    \/ \E c \in Clients : api_me(c)
    \/ \E c \in Clients : api_get_tasks(c)
    \/ \E c \in Clients, data \in TaskBodies : api_create_task(c, data)
    \/ \E c \in Clients, task_id \in TaskIds, data \in TaskBodies :
          api_update_task(c, task_id, data)
    \/ \E c \in Clients, task_id \in TaskIds : api_delete_task(c, task_id)
    \/ \E c \in Clients, task_id \in TaskIds : api_toggle_task(c, task_id)

Spec == Init /\ [][Next]_vars

\* the same application on a database whose commits can fail
InitFaulty ==
    /\ users = {}
    /\ tasks = {}
    /\ session = [c \in Clients |-> EmptySession]
    /\ nextUserId = 1
    /\ nextTaskId = 1
    /\ now = 0
    /\ last = Reply("none", "c1", 0, "", NoUser, NoTasks)
    /\ body = NoBody
    /\ reg = [w \in Workers |-> RegIdle]
    /\ dbFaults = TRUE

SpecFaulty == InitFaulty /\ [][Next]_vars

(***************************************************************************)
(* POST /api/register served by several workers at once.  A worker runs    *)
(* api_register one database round trip at a time: the username query,     *)
(* the email query, then the INSERT and commit.  The queries of one        *)
(* request share a transaction, so the email query sees either the rows    *)
(* committed by now (READ COMMITTED) or those the username query saw       *)
(* (REPEATABLE READ); the constraints are checked against the committed    *)
(* rows.                                                                   *)
(***************************************************************************)
register_receive(w, c, data) ==
    LET username == strip(data.username)
        email == strip(data.email)
        password == data.password
    IN  /\ reg[w].pc = "idle"
        /\ body' = data
        /\ UNCHANGED <<users, tasks, session, nextUserId, nextTaskId, now,
                       dbFaults>>
        /\ IF FieldMissing(username, email, password)
           THEN last' = AllFieldsRequired(c) /\ UNCHANGED reg
           ELSE IF PasswordTooShort(password)
           THEN last' = PasswordTooShortReply(c) /\ UNCHANGED reg
           ELSE /\ reg' = [reg EXCEPT ![w] =
                             [pc |-> "username", client |-> c,
                              username |-> username, email |-> email,
                              password |-> password, seen |-> {}]]
                /\ UNCHANGED last

register_query_username(w) ==
    /\ reg[w].pc = "username"
    /\ UNCHANGED <<users, tasks, session, nextUserId, nextTaskId, now, body,
                   dbFaults>>
    /\ IF UsersByUsername(reg[w].username) # {}
       THEN /\ last' = UsernameTaken(reg[w].client)
            /\ reg' = [reg EXCEPT ![w] = RegIdle]
       ELSE /\ reg' = [reg EXCEPT ![w].pc = "email", ![w].seen = users]
            /\ UNCHANGED last

register_query_email(w) ==
    /\ reg[w].pc = "email"
    /\ UNCHANGED <<users, tasks, session, nextUserId, nextTaskId, now, body,
                   dbFaults>>
    /\ \E rows \in {reg[w].seen, users} :
         IF \E u \in rows : u.email = reg[w].email
         THEN /\ last' = EmailRegistered(reg[w].client)
              /\ reg' = [reg EXCEPT ![w] = RegIdle]
         ELSE /\ reg' = [reg EXCEPT ![w].pc = "insert"]
              /\ UNCHANGED last

register_insert(w) ==
    /\ reg[w].pc = "insert"
    /\ InsertUser(reg[w].client, reg[w].username, reg[w].email, reg[w].password)
    /\ reg' = [reg EXCEPT ![w] = RegIdle]
    /\ UNCHANGED <<tasks, session, nextTaskId, now, body, dbFaults>>

NextRegister ==
    \/ \E w \in Workers, c \in Clients, data \in RegisterBodies :
          register_receive(w, c, data)
    \/ \E w \in Workers : register_query_username(w)
    \/ \E w \in Workers : register_query_email(w)
    \/ \E w \in Workers : register_insert(w)

SpecRegister == Init /\ [][NextRegister]_vars

(***************************************************************************)
(* PUT /api/tasks/<task_id>/toggle served by several workers at once.  A   *)
(* worker runs api_toggle_task one database round trip at a time: it       *)
(* fetches the row (Task.query.get) into its own SQLAlchemy session, then  *)
(* assigns "not task.done" to the object it fetched and commits, which     *)
(* sends UPDATE tasks SET done = <that value> WHERE id = <task_id>.  The    *)
(* other requests are served whole in between.  reg[w].seen is the row     *)
(* worker w fetched.                                                       *)
(***************************************************************************)
\* worker state between the fetch and the commit of a toggle
Toggling(c, task) ==
    [pc |-> "commit", client |-> c, username |-> <<>>, email |-> <<>>,
     password |-> <<>>, seen |-> {task}]

toggle_read(w, c, task_id) ==
    /\ reg[w].pc = "idle"
    /\ UNCHANGED <<users, tasks, session, nextUserId, nextTaskId, now, dbFaults>>
    /\ body' = NoBody
    /\ IF ~LoggedIn(c)
       THEN /\ last' = NotLoggedIn("toggle", c, task_id)
            /\ UNCHANGED reg
       ELSE IF NotFoundFor(c, task_id)
       THEN /\ last' = TaskNotFound("toggle", c, task_id)
            /\ UNCHANGED reg
       ELSE \E task \in TasksById(task_id) :
              /\ reg' = [reg EXCEPT ![w] = Toggling(c, task)]
              /\ UNCHANGED last

\* the UPDATE writes the done column of the stored row; it matches no row
\* when the task was deleted since the fetch, which SQLAlchemy raises as an
\* error in commit() (so: rollback, 500)
toggle_commit(w) ==
    /\ reg[w].pc = "commit"
    /\ UNCHANGED <<users, session, nextUserId, nextTaskId, now, body, dbFaults>>
    /\ reg' = [reg EXCEPT ![w] = RegIdle]
    /\ \E task \in reg[w].seen, committed \in CommitOutcomes :
         LET done == ~task.done
             stored == TasksById(task.id)
         IN  IF committed /\ stored # {}
             THEN /\ tasks' = (tasks \ stored) \cup
                                {[row EXCEPT !.done = done] : row \in stored}
                  /\ last' = Response("toggle", reg[w].client, task.id, 200,
                                      ToggleMessage(done), NoUser, NoTasks)
             ELSE /\ UNCHANGED tasks
                  /\ last' = ServerError("toggle", reg[w].client, task.id)

NextToggle ==
    \/ \E c \in Clients, data \in RegisterBodies : api_register(c, data)
    \/ \E c \in Clients, data \in LoginBodies : api_login(c, data)
    \/ \E c \in Clients, data \in TaskBodies : api_create_task(c, data)
    \/ \E c \in Clients, task_id \in TaskIds : api_delete_task(c, task_id)
    \/ \E w \in Workers, c \in Clients, task_id \in TaskIds :
          toggle_read(w, c, task_id)
    \/ \E w \in Workers : toggle_commit(w)

SpecToggle == Init /\ [][NextToggle]_vars

(***************************************************************************)
(* One client working through the application from an empty database:     *)
(* it registers, logs in (again after a 401), creates tasks, lists,        *)
(* toggles a listed task, deletes the task it toggled and lists again.     *)
(* Each request is the whole handler; what the client sends next follows   *)
(* from the route it called last.                                          *)
(***************************************************************************)
Alice == <<"a", "l", "i", "c", "e">>
AliceEmail == <<"a", "@", "x", ".", "c", "o", "m">>
Secret1 == <<"s", "e", "c", "r", "e", "t", "1">>
BuyMilk == <<"b", "u", "y", " ", "m", "i", "l", "k">>

AliceRegister == [username |-> Alice, email |-> AliceEmail, password |-> Secret1]
AliceLogin == [username |-> Alice, password |-> Secret1]
\* {"title": "buy milk"}: data.get('content', '') is ''
BuyMilkBody == [title |-> BuyMilk, content |-> <<>>]

ScenarioRegisterBodies ==
    { AliceRegister,
      [username |-> <<" ">> \o Alice, email |-> AliceEmail \o <<" ">>,
       password |-> Secret1],
      [username |-> Alice, email |-> AliceEmail, password |-> Short],
      [username |-> <<"b">>, email |-> <<"y">>, password |-> Secret] }
ScenarioLoginBodies ==
    { AliceLogin,
      [username |-> Alice \o <<" ">>, password |-> Secret1],
      [username |-> Alice, password |-> Secret],
      [username |-> <<"b">>, password |-> Secret] }
ScenarioTaskBodies ==
    { BuyMilkBody,
      [title |-> <<" ">> \o BuyMilk \o <<" ">>, content |-> <<"c", " ">>],
      [title |-> <<" ">>, content |-> <<>>] }

scenario_register ==
    /\ last.op = "none"
    /\ \E data \in ScenarioRegisterBodies : api_register("c1", data)

scenario_login ==
    /\ last.op = "register" \/ (last.op = "login" /\ last.status = 401)
    /\ \E data \in ScenarioLoginBodies : api_login("c1", data)

scenario_create ==
    /\ last.op \in {"login", "create"}
    /\ \E data \in ScenarioTaskBodies : api_create_task("c1", data)

scenario_list ==
    /\ last.op \in {"create", "toggle", "delete"}
    /\ api_get_tasks("c1")

\* the client toggles a task of the list it was given
scenario_toggle ==
    /\ last.op = "list"
    /\ \E i \in DOMAIN last.tasks : api_toggle_task("c1", last.tasks[i].id)

\* the client deletes the task it toggled
scenario_delete ==
    /\ last.op = "toggle"
    /\ api_delete_task("c1", last.tid)

NextScenario ==
    \/ scenario_register
    \/ scenario_login
    \/ scenario_create
    \/ scenario_list
    \/ scenario_toggle
    \/ scenario_delete

SpecScenario == Init /\ [][NextScenario]_vars

(***************************************************************************)
(* Properties.                                                             *)
(***************************************************************************)
TaskOps == {"update", "toggle", "delete"}

\* the session of client c belongs to a user who owns no task with this id:
\* the id is missing from the table, or its task belongs to someone else
MissingOrForeign(c, task_id) ==
    /\ "user_id" \in DOMAIN session[c]
    /\ \A t \in tasks : t.id = task_id => t.user_id # session[c].user_id

\* the one answer given for a missing and for a foreign task
IsNotFound(r) ==
    /\ r.status = 404
    /\ r.success = FALSE
    /\ r.message = "Task not found."

\* C1: an update, toggle or delete under a logged-in session on a task id
\* that is missing or owned by another user answers 404 "Task not found."
\* -- the same answer in both cases and for every request body -- and
\* leaves the tasks table as it was.
C1_ForeignTaskNotFound ==
    [][last'.op \in TaskOps =>
         \A c \in {last'.client}, task_id \in {last'.tid} :
           MissingOrForeign(c, task_id) =>
             /\ \A data \in TaskBodies :
                  api_update_task(c, task_id, data) =>
                    IsNotFound(last') /\ tasks' = tasks
             /\ api_toggle_task(c, task_id) =>
                  IsNotFound(last') /\ tasks' = tasks
             /\ api_delete_task(c, task_id) =>
                  IsNotFound(last') /\ tasks' = tasks
      ]_vars

\* C1 witness: a 404 was just given for an update with an empty title on a
\* stored task of another user
C1_Witness ==
    /\ last.op = "update"
    /\ last.status = 404
    /\ Falsy(strip(body.title))
    /\ "user_id" \in DOMAIN session[last.client]
    /\ \E t \in tasks : t.id = last.tid /\ t.user_id # session[last.client].user_id

\* C2: the answer to GET /api/tasks lists the stored tasks of the session's
\* user, each once and with its stored fields, and nothing else.
C2_ListIsOwnTasks ==
    (last.op = "list" /\ last.status = 200) =>
      /\ "user_id" \in DOMAIN session[last.client]
      /\ \A i \in DOMAIN last.tasks :
           \E t \in tasks :
             /\ t.user_id = session[last.client].user_id
             /\ t.id = last.tasks[i].id
             /\ t.title = last.tasks[i].title
             /\ t.content = last.tasks[i].content
             /\ t.done = last.tasks[i].done
             /\ t.user_id = last.tasks[i].user_id
      /\ \A t \in tasks :
           t.user_id = session[last.client].user_id =>
             \E i \in DOMAIN last.tasks : last.tasks[i].id = t.id
      /\ \A i, j \in DOMAIN last.tasks :
           i # j => last.tasks[i].id # last.tasks[j].id

\* C2 witness: a list was answered with some task while another user's task
\* is stored
C2_Witness ==
    /\ last.op = "list"
    /\ last.status = 200
    /\ Len(last.tasks) > 0
    /\ \E t \in tasks : t.user_id # session[last.client].user_id

AuthOps == {"me", "list", "create", "update", "toggle", "delete"}

Anonymous(c) == ~ ("user_id" \in DOMAIN session[c])

\* a request of client c to one of the routes that need a login
AuthRequest(c) ==
    \/ api_me(c)
    \/ api_get_tasks(c)
    \/ \E data \in TaskBodies : api_create_task(c, data)
    \/ \E task_id \in TaskIds, data \in TaskBodies : api_update_task(c, task_id, data)
    \/ \E task_id \in TaskIds : api_toggle_task(c, task_id)
    \/ \E task_id \in TaskIds : api_delete_task(c, task_id)

\* C3: with no user_id in the session, me, list, create, update, toggle and
\* delete answer 401 with success false, whatever task id and body they
\* carry, and leave users, tasks and the session as they were.
C3_AnonymousIs401 ==
    [][last'.op \in AuthOps =>
         \A c \in {last'.client} :
           (Anonymous(c) /\ AuthRequest(c)) =>
             /\ last'.status = 401
             /\ last'.success = FALSE
             /\ users' = users
             /\ tasks' = tasks
             /\ session' = session
      ]_vars

\* C3 witness: a create with an empty title, sent without a login while
\* tasks are stored, was answered 401
C3_Witness ==
    /\ last.op = "create"
    /\ last.status = 401
    /\ Falsy(strip(body.title))
    /\ Anonymous(last.client)
    /\ tasks # {}

\* a register request that passes validation
Acceptable(data) ==
    /\ strip(data.username) # <<>>
    /\ strip(data.email) # <<>>
    /\ Len(data.password) >= 6

\* C4: a register request that passes validation and names the username of
\* a stored user answers 409 and adds no user, whatever its email.
C4_DuplicateUsername409 ==
    [][last'.op = "register" =>
         \A c \in {last'.client}, data \in RegisterBodies :
           ( /\ Acceptable(data)
             /\ \E u \in users : u.username = strip(data.username)
             /\ api_register(c, data) ) =>
               /\ last'.status = 409
               /\ users' = users
      ]_vars

\* C4 witness: a 409 for a taken username whose request carried an email
\* that no stored user has
C4_Witness ==
    /\ last.op = "register"
    /\ last.status = 409
    /\ \E u \in users : u.username = strip(body.username)
    /\ \A u \in users : u.email # strip(body.email)

\* C5: while register requests run concurrently, no two stored users share a
\* username, an email or an id.
C5_UsersUnique ==
    \A u, v \in users :
      u # v => /\ u.username # v.username
               /\ u.email # v.email
               /\ u.id # v.id

\* C5 witness: two users are stored and the commit of a request that had
\* passed both existence queries was refused
C5_Witness ==
    /\ Cardinality(users) = 2
    /\ last.op = "register"
    /\ last.status = 500

\* C6: register answers 400 and adds no user when the trimmed username, the
\* trimmed email or the password is empty or the password has fewer than 6
\* characters; a request that passes validation and meets no stored
\* username or email answers 201 and adds exactly one user, with the trimmed
\* username and email.
C6_RegisterValidation ==
    [][last'.op = "register" =>
         \A c \in {last'.client}, data \in RegisterBodies :
           api_register(c, data) =>
             /\ ~Acceptable(data) =>
                  /\ last'.status = 400
                  /\ users' = users
             /\ ( /\ Acceptable(data)
                  /\ \A u \in users : /\ u.username # strip(data.username)
                                      /\ u.email # strip(data.email) ) =>
                  /\ last'.status = 201
                  /\ users \subseteq users'
                  /\ \E u \in users' \ users :
                       /\ users' \ users = {u}
                       /\ u.username = strip(data.username)
                       /\ u.email = strip(data.email)
      ]_vars

\* C6 witness: with a user already registered (201), a request with a
\* five-character password was answered 400
C6_Witness ==
    /\ last.op = "register"
    /\ last.status = 400
    /\ strip(body.username) # <<>>
    /\ strip(body.email) # <<>>
    /\ Len(body.password) = 5
    /\ users # {}

\* the stored users called name whose credential the password verifies against
Verified(name, password) ==
    {u \in users : /\ u.username = name
                   /\ check_password_hash(u.password_hash, password)}

\* the one answer given for an unknown username and for a wrong password
InvalidCredentials(r) ==
    /\ r.status = 401
    /\ r.success = FALSE
    /\ r.message = "Invalid username or password."
    /\ DOMAIN r.user = {}

\* the outcome of a login that must succeed for one of the users in found,
\* or fail when found is empty
LoginOutcome(c, found) ==
    IF found # {}
    THEN /\ last'.status = 200
         /\ \E u \in found :
              session'[c] = [user_id |-> u.id, username |-> u.username]
    ELSE /\ InvalidCredentials(last')
         /\ session' = session

C8_LogoutClearsSession ==
    [][\A c \in Clients :
         /\ api_logout(c) =>
              /\ last'.status = 200
              /\ Anonymous(c)'
              /\ users' = users
              /\ tasks' = tasks
         /\ Anonymous(c) =>
              \/ /\ last'.op = "login"
                 /\ last'.client = c
                 /\ last'.status = 200
              \/ /\ Anonymous(c)'
                 /\ (last'.op \in AuthOps /\ last'.client = c) =>
                      last'.status = 401
      ]_vars

\* C8 witness: tasks were created under a login, and a list sent after the
\* logout was answered 401
C8_Witness ==
    /\ last.op = "list"
    /\ last.status = 401
    /\ Anonymous(last.client)
    /\ tasks # {}

\* the completion flag of the stored task with this id, in table
DoneOf(table, task_id) == \A t \in table : t.id = task_id => t.done

\* C9: a toggle answered 200 leaves the flag of its task negated, and a
\* toggle answered 200 right after a toggle of the same task answered 200
\* leaves the flag as it was before the first of the two (the value the
\* first answer did not announce).
C9_DoubleToggle ==
    [][last'.op = "toggle" =>
         \A c \in {last'.client}, task_id \in {last'.tid} :
           (api_toggle_task(c, task_id) /\ last'.status = 200) =>
             /\ \E t \in tasks : t.id = task_id
             /\ \E t \in tasks' : t.id = task_id
             /\ DoneOf(tasks', task_id) = ~DoneOf(tasks, task_id)
             /\ ( /\ last.op = "toggle"
                  /\ last.status = 200
                  /\ last.tid = task_id ) =>
                  DoneOf(tasks', task_id) =
                    (last.message = "Task marked as not done.")
      ]_vars

\* C9 witness: a task (created not done) was toggled back to not done
C9_Witness ==
    /\ last.op = "toggle"
    /\ last.status = 200
    /\ \E t \in tasks : t.id = last.tid /\ ~t.done
    /\ last.message = "Task marked as not done."

\* C10: a list places a task created later before a task created earlier.
\* Requests are served one at a time and ids are handed out in the order of
\* the create calls, so the later of two tasks is the one with the larger id.
C10_NewestFirst ==
    (last.op = "list" /\ last.status = 200) =>
      \A i, j \in DOMAIN last.tasks :
        i < j => last.tasks[i].id > last.tasks[j].id

\* the session of client c belongs to the user who owns the stored task
\* with this id
Owns(c, task_id) ==
    /\ "user_id" \in DOMAIN session[c]
    /\ \E t \in tasks : t.id = task_id /\ t.user_id = session[c].user_id

\* C11: an update of a task the session's user owns whose title is empty
\* after trimming answers 400 and leaves the tasks table (so the title,
\* content and completion flag of that task) as it was; an update whose
\* trimmed title is not empty answers 200 and stores the trimmed title and
\* the trimmed content in that task.
C11_UpdateValidation ==
    [][last'.op = "update" =>
         \A c \in {last'.client}, task_id \in {last'.tid}, data \in TaskBodies :
           (Owns(c, task_id) /\ api_update_task(c, task_id, data)) =>
             IF strip(data.title) = <<>>
             THEN /\ last'.status = 400
                  /\ last'.success = FALSE
                  /\ tasks' = tasks
             ELSE /\ last'.status = 200
                  /\ \E t \in tasks' :
                       /\ t.id = task_id
                       /\ t.title = strip(data.title)
                       /\ t.content = strip(data.content)
      ]_vars

\* C11 witness: an update whose title and content came with surrounding
\* whitespace was answered 200 and the owned task holds the trimmed values
C11_Witness ==
    /\ last.op = "update"
    /\ last.status = 200
    /\ body.title # strip(body.title)
    /\ body.content # strip(body.content)
    /\ Owns(last.client, last.tid)
    /\ \E t \in tasks : /\ t.id = last.tid
                        /\ t.title = strip(body.title)
                        /\ t.content = strip(body.content)

MutatingOps == {"register", "create", "update", "toggle", "delete"}

\* the generic answer to a failure during persistence
IsServerError(r) ==
    /\ r.status = 500
    /\ r.success = FALSE
    /\ r.message = "Server error."

\* the rows of table other than the task with this id
OtherTasks(table, task_id) == {t \in table : t.id # task_id}

\* C12: on a database whose commits can fail, a register, create, update,
\* toggle or delete either succeeds with its whole change stored or stores
\* nothing: a call whose persistence fails answers 500 "Server error." with
\* success false and leaves users and tasks exactly as they were, no call
\* answered with a failure changes a table, and a call that changes a table
\* stores the complete record (a user with its username, email and
\* credential; a task with its title, content, flag and owner; an updated
\* task with both the new title and the new content).
C12_AtomicPerCall ==
    [][last'.op \in MutatingOps =>
         /\ last'.status = 500 =>
              /\ IsServerError(last')
              /\ users' = users
              /\ tasks' = tasks
         /\ (users' # users \/ tasks' # tasks) => last'.success
         /\ \A u \in users' \ users :
              /\ last'.op = "register"
              /\ users' = users \cup {u}
              /\ u.username = strip(body'.username)
              /\ u.email = strip(body'.email)
              /\ check_password_hash(u.password_hash, body'.password)
         /\ \A t \in tasks' \ tasks :
              \/ /\ last'.op = "create"
                 /\ tasks' = tasks \cup {t}
                 /\ t.title = strip(body'.title)
                 /\ t.content = strip(body'.content)
                 /\ t.done = FALSE
                 /\ t.user_id = session[last'.client].user_id
              \/ /\ last'.op = "update"
                 /\ t.id = last'.tid
                 /\ t.title = strip(body'.title)
                 /\ t.content = strip(body'.content)
                 /\ OtherTasks(tasks', t.id) = OtherTasks(tasks, t.id)
              \/ /\ last'.op = "toggle"
                 /\ t.id = last'.tid
                 /\ OtherTasks(tasks', t.id) = OtherTasks(tasks, t.id)
         /\ \A t \in tasks \ tasks' :
              /\ last'.op \in {"update", "toggle", "delete"}
              /\ t.id = last'.tid
              /\ OtherTasks(tasks', t.id) = OtherTasks(tasks, t.id)
      ]_vars

\* C12 witness: an update of an owned task that passed validation was
\* answered 500 and the task still holds a title other than the one sent
C12_Witness ==
    /\ dbFaults
    /\ last.op = "update"
    /\ IsServerError(last)
    /\ Owns(last.client, last.tid)
    /\ strip(body.title) # <<>>
    /\ \E t \in tasks : t.id = last.tid /\ t.title # strip(body.title)

\* C13: a logout sent with no user_id in the session is answered 401, like
\* the requests of the routes that need a login.
C13_LogoutRequiresLogin ==
    [][\A c \in Clients :
         (Anonymous(c) /\ api_logout(c)) =>
           /\ last'.status = 401
           /\ last'.success = FALSE
      ]_vars

\* C14: a register request that passes validation and whose trimmed
\* username is stored answers 409 "Username already taken." -- also when its
\* trimmed email is stored too, on the same or on another user; 409 "Email
\* already registered." is the answer exactly when the username is free and
\* the email is stored.  Neither answer adds a user.
C14_UsernameConflictFirst ==
    [][last'.op = "register" =>
         \A c \in {last'.client}, data \in RegisterBodies :
           (Acceptable(data) /\ api_register(c, data)) =>
             LET nameTaken == \E u \in users : u.username = strip(data.username)
                 emailTaken == \E u \in users : u.email = strip(data.email)
             IN  /\ nameTaken =>
                      /\ last'.status = 409
                      /\ last'.message = "Username already taken."
                      /\ users' = users
                 /\ (~nameTaken /\ emailTaken) =>
                      /\ last'.status = 409
                      /\ last'.message = "Email already registered."
                      /\ users' = users
                 /\ last'.message = "Email already registered." =>
                      ~nameTaken /\ emailTaken
      ]_vars

\* C14 witness: a request whose username is stored on one user and whose
\* email is stored on another was answered with the username conflict
C14_Witness ==
    /\ last.op = "register"
    /\ last.status = 409
    /\ last.message = "Username already taken."
    /\ \E u, v \in users :
         /\ u # v
         /\ u.username = strip(body.username)
         /\ u.email # strip(body.email)
         /\ v.email = strip(body.email)
         /\ v.username # strip(body.username)

\* the stores hold alice, registered with a@x.com and secret1, and nobody else
AliceStored ==
    \E u \in users :
      /\ users = {u}
      /\ u.username = Alice
      /\ u.email = AliceEmail
      /\ check_password_hash(u.password_hash, Secret1)

\* alice is stored and the session of c1 is bound to her
BoundToAlice ==
    /\ AliceStored
    /\ \E u \in users :
         session["c1"] = [user_id |-> u.id, username |-> Alice]

\* the tasks table holds one task: alice's "buy milk", with this flag
OneBuyMilk(done) ==
    \E t \in tasks :
      /\ tasks = {t}
      /\ t.title = BuyMilk
      /\ t.done = done
      /\ t.user_id = session["c1"].user_id

\* C15: from empty stores, register(alice, a@x.com, secret1) answers 201;
\* then login(alice, secret1) answers 200 and binds the session to alice;
\* then creating {"title": "buy milk"} answers 201; then the list has
\* exactly one entry, titled "buy milk" and not done; then toggling it
\* answers 200 and the task is done; then deleting it answers 200, and the
\* list that follows is empty.  Each line takes the state the line before
\* it establishes.
C15_EndToEnd ==
    [][/\ (users = {} /\ tasks = {} /\ api_register("c1", AliceRegister)) =>
            last'.status = 201 /\ AliceStored'
       /\ (AliceStored /\ tasks = {} /\ api_login("c1", AliceLogin)) =>
            /\ last'.status = 200
            /\ last'.user.username = Alice
            /\ BoundToAlice'
       /\ (BoundToAlice /\ tasks = {} /\ api_create_task("c1", BuyMilkBody)) =>
            last'.status = 201 /\ OneBuyMilk(FALSE)' /\ BoundToAlice'
       /\ (BoundToAlice /\ OneBuyMilk(FALSE) /\ api_get_tasks("c1")) =>
            /\ last'.status = 200
            /\ Len(last'.tasks) = 1
            /\ last'.tasks[1].title = BuyMilk
            /\ last'.tasks[1].done = FALSE
            /\ OneBuyMilk(FALSE)'
       /\ \A t \in tasks :
            (BoundToAlice /\ OneBuyMilk(FALSE) /\ api_toggle_task("c1", t.id)) =>
              last'.status = 200 /\ OneBuyMilk(TRUE)' /\ BoundToAlice'
       /\ \A t \in tasks :
            (BoundToAlice /\ OneBuyMilk(TRUE) /\ api_delete_task("c1", t.id)) =>
              last'.status = 200 /\ tasks' = {} /\ BoundToAlice'
       /\ (BoundToAlice /\ tasks = {} /\ last.op = "delete" /\ api_get_tasks("c1")) =>
            last'.status = 200 /\ last'.tasks = <<>>
      ]_vars

\* C15 witness: alice registered as in the scenario, is logged in, the one
\* task ever created was toggled and deleted, and the list that followed
\* came back empty
C15_Witness ==
    /\ BoundToAlice
    /\ body = NoBody
    /\ last.op = "list"
    /\ last.status = 200
    /\ last.tasks = <<>>
    /\ tasks = {}
    /\ nextTaskId = 2

\* the ids of the rows of table
IdsOf(table) == {t.id : t \in table}

\* C16: in every reachable state each stored task has one owner, a stored
\* user, and is the only task with its id; from one state to the next a
\* task that stays stored keeps its owner and its created_at, an update or
\* a toggle leaves the same task ids stored, and every stored user stays
\* stored with the same fields.
C16_OwnerPermanent ==
    /\ [](\A t \in tasks :
            /\ Cardinality({u \in users : u.id = t.user_id}) = 1
            /\ \A t2 \in tasks : t2.id = t.id => t2 = t)
    /\ [][/\ \A t \in tasks, t2 \in tasks' :
               t2.id = t.id => /\ t2.user_id = t.user_id
                               /\ t2.created_at = t.created_at
          /\ last'.op \in {"update", "toggle"} => IdsOf(tasks') = IdsOf(tasks)
          /\ users \subseteq users'
         ]_vars

\* C16 witness: a task created in an earlier tick of the clock, and toggled
\* since, was just updated (200) while two users are stored
C16_Witness ==
    /\ last.op = "update"
    /\ last.status = 200
    /\ Cardinality(users) = 2
    /\ \E t \in tasks : /\ t.id = last.tid
                        /\ t.created_at < now
                        /\ t.done
                        /\ t.title = strip(body.title)

\* C17: an update answered 200 leaves the completion flag of its task as it
\* was; a toggle answered 200 leaves the title and the content of its task
\* as they were; a delete answered 200 removes its task; and each of the
\* three, whatever its answer, leaves every task with another id as it was.
C17_FlagIndependentOfEdits ==
    [][last'.op \in TaskOps =>
         \A c \in {last'.client}, task_id \in {last'.tid} :
           /\ \A data \in TaskBodies :
                (api_update_task(c, task_id, data) /\ last'.status = 200) =>
                  \E t \in tasks, t2 \in tasks' :
                    /\ t.id = task_id
                    /\ t2.id = task_id
                    /\ t2.done = t.done
           /\ (api_toggle_task(c, task_id) /\ last'.status = 200) =>
                \E t \in tasks, t2 \in tasks' :
                  /\ t.id = task_id
                  /\ t2.id = task_id
                  /\ t2.title = t.title
                  /\ t2.content = t.content
           /\ (api_delete_task(c, task_id) /\ last'.status = 200) =>
                /\ \E t \in tasks : t.id = task_id
                /\ \A t2 \in tasks' : t2.id # task_id
           /\ OtherTasks(tasks', task_id) = OtherTasks(tasks, task_id)
      ]_vars

\* C17 witness: a delete was answered 200 and another task of the same user
\* is still stored, done and with a content
C17_Witness ==
    /\ last.op = "delete"
    /\ last.status = 200
    /\ "user_id" \in DOMAIN session[last.client]
    /\ \E t \in tasks : /\ t.id # last.tid
                        /\ t.user_id = session[last.client].user_id
                        /\ t.done
                        /\ t.content # <<>>

\* C18: a create under the session of user U whose trimmed title is not
\* empty answers 201 and adds exactly one task -- its id borne by no stored
\* task, its owner U, not done, title and content trimmed -- and leaves the
\* stored tasks as they were; a create whose trimmed title is empty answers
\* 400 and adds nothing.  In every reachable state, whatever creates and
\* updates came before, each stored task has a non-empty title.
C18_CreateAddsOneTask ==
    /\ [](\A t \in tasks : t.title # <<>>)
    /\ [][last'.op = "create" =>
            \A c \in {last'.client}, data \in TaskBodies :
              (LoggedIn(c) /\ api_create_task(c, data)) =>
                IF strip(data.title) = <<>>
                THEN /\ last'.status = 400
                     /\ tasks' = tasks
                ELSE /\ last'.status = 201
                     /\ \E t \in tasks' \ tasks :
                          /\ tasks' = tasks \cup {t}
                          /\ t.id \notin IdsOf(tasks)
                          /\ t.user_id = session[c].user_id
                          /\ t.done = FALSE
                          /\ t.title = strip(data.title)
                          /\ t.content = strip(data.content)
         ]_vars

\* C18 witness: a create whose title and content came with surrounding
\* whitespace was answered 201 beside an older task, and the new task holds
\* the trimmed values
C18_Witness ==
    /\ last.op = "create"
    /\ last.status = 201
    /\ body.title # strip(body.title)
    /\ Cardinality(tasks) = 2
    /\ \E t \in tasks : /\ t.id = nextTaskId - 1
                        /\ t.title = strip(body.title)
                        /\ t.content = strip(body.content)
                        /\ ~t.done

\* C19: no toggle is lost when toggles of one task by its owner run at the
\* same time: every toggle that commits and answers 200 leaves the stored
\* completion flag negated, so that two of them, however their fetch and
\* commit steps interleave, leave the flag at its original value.
C19_NoLostToggle ==
    [][\A w \in Workers :
         (toggle_commit(w) /\ last'.status = 200) =>
           /\ \E t \in tasks : t.id = last'.tid
           /\ DoneOf(tasks', last'.tid) = ~DoneOf(tasks, last'.tid)
      ]_vars

\* C20: the identity held by a client's session changes only in a login
\* answered 200, which binds it to the stored user just authenticated (the
\* one with the trimmed username of the request) in place of whoever was
\* logged in, and in a logout, which empties it; every other request --
\* a login answered 401, a register, a me, list, create, update, toggle or
\* delete with any answer -- leaves it as it was.  In every reachable state
\* a session that holds an identity holds the id and the username of one
\* stored user.
C20_SessionIdentity ==
    /\ [](\A c \in Clients :
            ("user_id" \in DOMAIN session[c]) =>
              \E u \in users : /\ u.id = session[c].user_id
                               /\ u.username = session[c].username)
    /\ [][\A c \in Clients :
            /\ session'[c] # session[c] =>
                 /\ last'.client = c
                 /\ \/ last'.op = "login" /\ last'.status = 200
                    \/ last'.op = "logout"
            /\ (last'.client = c /\ last'.op = "login" /\ last'.status = 200) =>
                 \E u \in users :
                   /\ u.username = strip(body'.username)
                   /\ check_password_hash(u.password_hash, body'.password)
                   /\ session'[c] = [user_id |-> u.id, username |-> u.username]
            /\ (last'.client = c /\ last'.op = "logout") =>
                 session'[c] = EmptySession
            /\ ( /\ last'.client = c
                 /\ \/ last'.op \in {"register", "me", "list", "create",
                                     "update", "toggle", "delete"}
                    \/ last'.op = "login" /\ last'.status = 401 ) =>
                 session'[c] = session[c]
         ]_vars

\* C20 witness: with the session bound to the second of two stored users
\* while the stored tasks belong to the first, a login with a wrong
\* password was answered 401 and the session still holds the second user
C20_Witness ==
    /\ last.op = "login"
    /\ last.status = 401
    /\ Cardinality(users) = 2
    /\ "user_id" \in DOMAIN session[last.client]
    /\ session[last.client].user_id = 2
    /\ tasks # {}
    /\ \A t \in tasks : t.user_id = 1
====
